---------------------------- MODULE Spec2Model ----------------------------
(***************************************************************************)
(* A model of the measurement-error notebooks: the two-proxy effect        *)
(* restoration estimator, the single-proxy effect restoration, the         *)
(* propensity-score recovery, the proximal ACE estimator and the two       *)
(* bootstrap confidence-interval utilities.                                *)
(*                                                                         *)
(* Numbers.  The notebooks compute in IEEE doubles.  The model computes    *)
(* in exact rational arithmetic wherever exact arithmetic defines the      *)
(* value, and records by a kind the values it does not track:              *)
(*   "rat"   n/d, an exact rational (d > 0, lowest terms);                 *)
(*   "real"  a finite real number that is not rational (value untracked);  *)
(*   "cplx"  a complex number with nonzero imaginary part (untracked);     *)
(*   "ill"   a value exact arithmetic leaves undefined and rounding        *)
(*           decides: the result of dividing by an exact zero (numpy       *)
(*           gives inf or nan with a warning, no exception) or of          *)
(*           inverting an exactly singular matrix whose elimination pivot  *)
(*           did not round to zero (a huge finite number);                 *)
(*   "nan"   the nan that interpolating between infinite values gives.     *)
(*                                                                         *)
(* Tables.  A pandas DataFrame is modelled as a bag (multiset) of rows,    *)
(* each row a record from column name to value: every operation of the     *)
(* notebooks on a table is a boolean row filter, len(), a resample or a    *)
(* column assignment, none of which reads the row order or the index.      *)
(***************************************************************************)
EXTENDS Integers, Sequences, FiniteSets, Bags, TLC

(***************************************************************************)
(* Bounds of the model.                                                    *)
(***************************************************************************)
\* rows of the caller's table in the whole-program specification Spec
MaxRows == 2
\* rows of the caller's table in the estimator specification SpecEst
MaxEstRows == 3
\* rows (all with treatment = 1) of the table in SpecWide
MaxWide == 9
\* largest num_bootstraps a caller passes
MaxBoot == 2
\* rows of the caller's table in the single-proxy specification SpecSingle
MaxSingleRows == 3
\* the probabilities of a law of SpecMoments are the multiples of 1/MaxDenom
MaxDenom == 2

(***************************************************************************)
(* Exact rational arithmetic with value kinds.                             *)
(***************************************************************************)
RECURSIVE GCD(_, _)
GCD(a, b) == IF b = 0 THEN a ELSE GCD(b, a % b)

Abs(x) == IF x < 0 THEN -x ELSE x

\* the rational n/d in lowest terms with a positive denominator (d # 0)
Rat(n, d) ==
    LET g == GCD(Abs(n), Abs(d))
        s == IF d < 0 THEN -1 ELSE 1
    IN  [k |-> "rat", n |-> s * (n \div g), d |-> s * (d \div g)]

Zero == Rat(0, 1)
One == Rat(1, 1)
Untracked(kind) == [k |-> kind, n |-> 0, d |-> 1]
Ill == Untracked("ill")

IsRat(a) == a.k = "rat"

\* the kind of a value computed from values of kinds j and k
KindRank(k) ==
    CASE k = "rat" -> 0 [] k = "real" -> 1 [] k = "cplx" -> 2 [] k = "ill" -> 3 [] OTHER -> 4
JoinKind(j, k) == IF KindRank(j) >= KindRank(k) THEN j ELSE k

NAdd(a, b) ==
    IF IsRat(a) /\ IsRat(b) THEN Rat(a.n * b.d + b.n * a.d, a.d * b.d)
    ELSE Untracked(JoinKind(a.k, b.k))

NNeg(a) == IF IsRat(a) THEN Rat(-a.n, a.d) ELSE a

NSub(a, b) == NAdd(a, NNeg(b))

\* 0 * x is 0 for every finite x; an ill value may be inf or nan
NMul(a, b) ==
    IF IsRat(a) /\ IsRat(b) THEN Rat(a.n * b.n, a.d * b.d)
    ELSE IF KindRank(a.k) >= 3 \/ KindRank(b.k) >= 3 THEN Untracked(JoinKind(a.k, b.k))
    ELSE IF a = Zero \/ b = Zero THEN Zero
    ELSE Untracked(JoinKind(a.k, b.k))

\* numpy float division: x / 0.0 is inf or nan (a warning, no exception)
NDiv(a, b) ==
    IF b = Zero THEN Ill
    ELSE IF IsRat(a) /\ IsRat(b) THEN Rat(a.n * b.d, a.d * b.n)
    ELSE IF KindRank(a.k) >= 3 \/ KindRank(b.k) >= 3 THEN Untracked(JoinKind(a.k, b.k))
    ELSE IF a = Zero THEN Zero
    ELSE Untracked(JoinKind(a.k, b.k))

NLess(a, b) == a.n * b.d < b.n * a.d
NLeq(a, b) == a.n * b.d <= b.n * a.d


(***************************************************************************)
(* 2 x 2 matrices, indexed from 0 as in the notebooks.                     *)
(***************************************************************************)
Mat(a, b, c, d) == << <<a, b>>, <<c, d>> >>
At(M, i, j) == M[i + 1][j + 1]
NoMatrix == << >>
Entries(M) == {At(M, i, j) : i \in 0..1, j \in 0..1}
AllRat(M) == \A e \in Entries(M) : IsRat(e)
\* the kind of a value computed from all the entries of M
MatKind(M) ==
    IF \E e \in Entries(M) : e.k = "nan" THEN "nan"
    ELSE IF \E e \in Entries(M) : e.k = "ill" THEN "ill"
    ELSE IF \E e \in Entries(M) : e.k = "cplx" THEN "cplx"
    ELSE IF \E e \in Entries(M) : e.k = "real" THEN "real"
    ELSE "rat"
UntrackedMat(kind) ==
    Mat(Untracked(kind), Untracked(kind), Untracked(kind), Untracked(kind))
Identity == Mat(One, Zero, Zero, One)

Det(M) == NSub(NMul(At(M, 0, 0), At(M, 1, 1)), NMul(At(M, 0, 1), At(M, 1, 0)))
Trace(M) == NAdd(At(M, 0, 0), At(M, 1, 1))

\* np.matmul
matmul(A, B) ==
    LET e(i, j) == NAdd(NMul(At(A, i, 0), At(B, 0, j)), NMul(At(A, i, 1), At(B, 1, j)))
    IN  Mat(e(0, 0), e(0, 1), e(1, 0), e(1, 1))

RECURSIVE IsPow2(_)
IsPow2(m) == IF m <= 1 THEN m = 1 ELSE (m % 2 = 0 /\ IsPow2(m \div 2))

\* x is a double that a product scales without rounding: 0 or +-2^j
Pow2OrZero(x) == x.n = 0 \/ (Abs(x.n) = 1 /\ IsPow2(x.d)) \/ (x.d = 1 /\ IsPow2(Abs(x.n)))
\* x is exactly representable as a double (within the model's magnitudes)
Dyadic(x) == IsPow2(x.d)

(***************************************************************************)
(* Whether the floating-point elimination of the rational matrix A,        *)
(* stored as doubles, is free of rounding, so that the second pivot of an  *)
(* exactly singular A is exactly 0.0.  LAPACK takes as pivot the entry of  *)
(* column 0 of largest magnitude (the first on a tie), divides the other   *)
(* entry of the column by it and subtracts the product from the diagonal.  *)
(***************************************************************************)
FloatExactLU(A) ==
    LET swap == NLess(Rat(Abs(At(A, 0, 0).n), At(A, 0, 0).d),
                      Rat(Abs(At(A, 1, 0).n), At(A, 1, 0).d))
        p == IF swap THEN At(A, 1, 0) ELSE At(A, 0, 0)
        q == IF swap THEN At(A, 1, 1) ELSE At(A, 0, 1)
        r == IF swap THEN At(A, 0, 0) ELSE At(A, 1, 0)
    IN  /\ AllRat(A)
        /\ Pow2OrZero(p)
        /\ \/ Pow2OrZero(q)
           \/ Pow2OrZero(r)
           \/ Dyadic(q) /\ Dyadic(r)

(***************************************************************************)
(* np.linalg.inv: the outcomes of inverting A.  exact says whether the     *)
(* elimination is free of rounding.  LinAlgError("Singular matrix") is     *)
(* raised only on a pivot that is exactly zero; a singular matrix whose    *)
(* pivot rounds to a nonzero number is inverted without any error, to      *)
(* numbers of the order of 1/epsilon.                                      *)
(***************************************************************************)
linalg_inv(A, exact) ==
    IF ~AllRat(A) THEN {[exc |-> "none", m |-> UntrackedMat(MatKind(A))]}
    ELSE IF Det(A) = Zero
    THEN {[exc |-> "LinAlgError", m |-> NoMatrix]}
         \cup (IF exact THEN {} ELSE {[exc |-> "none", m |-> UntrackedMat("ill")]})
    ELSE LET det == Det(A)
         IN  {[exc |-> "none",
               m |-> Mat(NDiv(At(A, 1, 1), det), NDiv(NNeg(At(A, 0, 1)), det),
                         NDiv(NNeg(At(A, 1, 0)), det), NDiv(At(A, 0, 0), det))]}

(***************************************************************************)
(* np.linalg.eig of a real 2 x 2 matrix: the set of pairs (eigenvalues,    *)
(* matrix whose columns are eigenvectors) the routine may deliver.  The    *)
(* order of the eigenvalues and the scale of each eigenvector are the      *)
(* routine's choice (LAPACK scales to unit length, a scale the rationals   *)
(* lack), so every order and every scale of EigScales is an outcome.       *)
(***************************************************************************)
EigScales == {Rat(1, 1), Rat(-1, 1), Rat(2, 1)}

\* n/d is the square of a rational
RECURSIVE ISqrtFrom(_, _)
ISqrtFrom(m, r) == IF (r + 1) * (r + 1) > m THEN r ELSE ISqrtFrom(m, r + 1)
ISqrt(m) == ISqrtFrom(m, 0)
IsSquare(x) == x.n >= 0 /\ ISqrt(x.n) * ISqrt(x.n) = x.n /\ ISqrt(x.d) * ISqrt(x.d) = x.d
Sqrt(x) == Rat(ISqrt(x.n), ISqrt(x.d))

Discriminant(M) == NSub(NMul(Trace(M), Trace(M)), NMul(Rat(4, 1), Det(M)))

\* a nonzero vector v with (M - l I) v = 0, for an eigenvalue l of M
KernelVector(M, l) ==
    LET a == NSub(At(M, 0, 0), l)
        b == At(M, 0, 1)
        c == At(M, 1, 0)
        d == NSub(At(M, 1, 1), l)
    IN  IF a # Zero \/ b # Zero THEN <<b, NNeg(a)>> ELSE <<d, NNeg(c)>>

\* the matrix with columns s1 * v1 and s2 * v2
Columns(v1, s1, v2, s2) ==
    Mat(NMul(s1, v1[1]), NMul(s2, v2[1]), NMul(s1, v1[2]), NMul(s2, v2[2]))

linalg_eig(M) ==
    IF ~AllRat(M)
    THEN {[w |-> <<Untracked(MatKind(M)), Untracked(MatKind(M))>>,
           v |-> UntrackedMat(MatKind(M))]}
    ELSE LET D == Discriminant(M) IN
    IF D.n < 0
    THEN {[w |-> <<Untracked("cplx"), Untracked("cplx")>>, v |-> UntrackedMat("cplx")]}
    ELSE IF ~IsSquare(D)
    THEN {[w |-> <<Untracked("real"), Untracked("real")>>, v |-> UntrackedMat("real")]}
    ELSE IF At(M, 0, 1) = Zero /\ At(M, 1, 0) = Zero
    \* a diagonal matrix is returned as it is: its diagonal and the unit vectors
    THEN {[w |-> <<At(M, 0, 0), At(M, 1, 1)>>, v |-> Identity]}
    ELSE LET l1 == NDiv(NAdd(Trace(M), Sqrt(D)), Rat(2, 1))
             l2 == NDiv(NSub(Trace(M), Sqrt(D)), Rat(2, 1))
             v1 == KernelVector(M, l1)
             v2 == KernelVector(M, l2)
         IN  UNION {{[w |-> <<l1, l2>>, v |-> Columns(v1, s1, v2, s2)],
                     [w |-> <<l2, l1>>, v |-> Columns(v2, s2, v1, s1)]}
                    : s1 \in EigScales, s2 \in EigScales}


(***************************************************************************)
(* Tables.                                                                 *)
(***************************************************************************)
\* the columns of the simulated table the estimators read (binary fields)
Columns4 == {"X", "Y", "Z", "W"}
Rows == [Columns4 -> {0, 1}]
TreatedRows == {r \in Rows : r["X"] = 1}

\* the bags of exactly n rows drawn from the set S
RECURSIVE BagsOfSize(_, _)
BagsOfSize(S, n) ==
    IF n = 0 THEN {EmptyBag}
    ELSE {b (+) SetToBag({r}) : b \in BagsOfSize(S, n - 1), r \in S}

TablesUpTo(S, n) == UNION {BagsOfSize(S, m) : m \in 0..n}

\* len(table)
len(t) == BagCardinality(t)

\* table[table[c] == v]: a new table holding the rows whose column c is v
Filter(t, c, v) ==
    LET S == {r \in DOMAIN t : r[c] = v}
    IN  [r \in S |-> t[r]]

\* the column names of a table (of its rows)
ColumnsOf(t) == UNION {DOMAIN r : r \in DOMAIN t}

\* data.sample(len(data), replace=True) followed by reset_index: the new
\* tables of len(data) rows, each row drawn from the rows of data
Resamples(t) == BagsOfSize(DOMAIN t, len(t))

(***************************************************************************)
(* two_proxy_effect_restoration(X, Y, Z, W, data): the set of outcomes of  *)
(* one call.  An outcome records the exception raised ("none" on return),  *)
(* the matrices built before it, the returned pair and the table the       *)
(* argument data refers to when the call ends.                             *)
(***************************************************************************)
NoPair == << >>

Outcome(exc, P, Q, eigenvectors, ret, data) ==
    [exc |-> exc, P |-> P, Q |-> Q, eigenvectors |-> eigenvectors, ret |-> ret,
     data |-> data]

\* data_subsetX0 = data[data[X] == 1]
data_subsetX0_X1(X, data) == Filter(data, X, 0)
data_subsetX0(X, data) == Filter(data, X, 1)

\* len(data_subset)/subset_size, for subset_size > 0
Fraction(data_subset, subset_size) == Rat(len(data_subset), subset_size)

\* P = np.array([[1, pW0_X0], [pZ0_X0, pZ0W0_X0]])
MatrixP(Z, W, stratum) ==
    LET subset_size == len(stratum)
        pW0_X0 == Fraction(Filter(stratum, W, 0), subset_size)
        pZ0_X0 == Fraction(Filter(stratum, Z, 0), subset_size)
        pZ0W0_X0 == Fraction(Filter(Filter(stratum, Z, 0), W, 0), subset_size)
    IN  Mat(One, pW0_X0, pZ0_X0, pZ0W0_X0)

\* Q = np.array([[pY0_X0, pY0W0_X0], [pY0Z0_X0, pY0Z0W0_X0]])
MatrixQ(Y, Z, W, stratum) ==
    LET subset_size == len(stratum)
        pY0_X0 == Fraction(Filter(stratum, Y, 0), subset_size)
        pY0W0_X0 == Fraction(Filter(Filter(stratum, Y, 0), W, 0), subset_size)
        pY0Z0_X0 == Fraction(Filter(Filter(stratum, Y, 0), Z, 0), subset_size)
        pY0Z0W0_X0 ==
            Fraction(Filter(Filter(Filter(stratum, Y, 0), Z, 0), W, 0), subset_size)
    IN  Mat(pY0_X0, pY0W0_X0, pY0Z0_X0, pY0Z0W0_X0)

\* the return statement without the division by the first column of H_inv
Ratios_unnormalised(H_inv) == <<At(H_inv, 0, 1), At(H_inv, 1, 1)>>

\* the return statement reading the columns of H_inv for its rows
Ratios_transposed(H_inv) ==
    LET alpha_1 == NDiv(One, At(H_inv, 0, 0))
        alpha_2 == NDiv(One, At(H_inv, 0, 1))
    IN  <<NMul(alpha_1, At(H_inv, 1, 0)), NMul(alpha_2, At(H_inv, 1, 1))>>

\* alpha_1 = 1/H_inv[0][0]; alpha_2 = 1/H_inv[1][0];
\* return (alpha_1*H_inv[0][1], alpha_2*H_inv[1][1])
Ratios(H_inv) ==
    LET alpha_1 == NDiv(One, At(H_inv, 0, 0))
        alpha_2 == NDiv(One, At(H_inv, 1, 0))
    IN  <<NMul(alpha_1, At(H_inv, 0, 1)), NMul(alpha_2, At(H_inv, 1, 1))>>

\* the part of the function after P and Q: lines 409 to 433
Solve(P, Q, data) ==
    UNION {
      IF pinv.exc # "none"
      THEN {Outcome(pinv.exc, P, Q, NoMatrix, NoPair, data)}
      ELSE UNION {
        {IF hinv.exc # "none"
         THEN Outcome(hinv.exc, P, Q, e.v, NoPair, data)
         ELSE Outcome("none", P, Q, e.v, Ratios(hinv.m), data)
         : hinv \in linalg_inv(e.v, FALSE)}
        : e \in linalg_eig(matmul(pinv.m, Q))}
      : pinv \in linalg_inv(P, FloatExactLU(P))}

\* the function with the stratum assigned to the caller's table
two_proxy_effect_restoration_inplace(X, Y, Z, W, data) ==
    LET stratum == data_subsetX0(X, data)
    IN  IF len(stratum) = 0
        THEN {Outcome("ZeroDivisionError", NoMatrix, NoMatrix, NoMatrix, NoPair,
                      stratum)}
        ELSE Solve(MatrixP(Z, W, stratum), MatrixQ(Y, Z, W, stratum), stratum)

two_proxy_effect_restoration(X, Y, Z, W, data) ==
    LET stratum == data_subsetX0(X, data)
        subset_size == len(stratum)
    IN  IF subset_size = 0
        \* pW0_X0 = len(data_subset)/subset_size divides two Python ints
        THEN {Outcome("ZeroDivisionError", NoMatrix, NoMatrix, NoMatrix, NoPair, data)}
        ELSE Solve(MatrixP(Z, W, stratum), MatrixQ(Y, Z, W, stratum), data)



(***************************************************************************)
(* np.quantile(a, q=[Ql, Qu]) with the default linear interpolation.       *)
(***************************************************************************)
RECURSIVE Insert(_, _)
Insert(x, s) ==
    IF s = << >> THEN <<x>>
    ELSE IF NLeq(x, Head(s)) THEN <<x>> \o s
    ELSE <<Head(s)>> \o Insert(x, Tail(s))

RECURSIVE Sort(_)
Sort(s) == IF s = << >> THEN << >> ELSE Insert(Head(s), Sort(Tail(s)))

\* the q-quantile of a nonempty list of rationals, 0 <= q <= 1: with the
\* sorted values s, the virtual index h = q (n - 1) and g its fractional
\* part, s[floor h] + (s[floor h + 1] - s[floor h]) g
LinearQuantile(a, q) ==
    LET n == Len(a)
        sorted == Sort(a)
        h == NMul(q, Rat(n - 1, 1))
        lo == h.n \div h.d
        g == NSub(h, Rat(lo, 1))
        previous == sorted[lo + 1]
        next == sorted[IF lo + 2 <= n THEN lo + 2 ELSE n]
    IN  NAdd(previous, NMul(NSub(next, previous), g))

ListKind(a) ==
    IF \E j \in 1..Len(a) : a[j].k = "nan" THEN "nan"
    ELSE IF \E j \in 1..Len(a) : a[j].k = "ill" THEN "ill"
    ELSE IF \E j \in 1..Len(a) : a[j].k = "cplx" THEN "cplx"
    ELSE IF \E j \in 1..Len(a) : a[j].k = "real" THEN "real"
    ELSE "rat"

\* the values one quantile of the list a may take
QuantileValues(a, q) ==
    CASE ListKind(a) = "rat" -> {LinearQuantile(a, q)}
      [] ListKind(a) = "real" -> {Untracked("real")}
      [] ListKind(a) = "cplx" -> {Untracked("cplx")}
      \* interpolating from an infinite value gives inf - inf = nan
      [] ListKind(a) = "ill" -> {Untracked("ill"), Untracked("nan")}
      [] OTHER -> {Untracked("nan")}

\* the outcomes of np.quantile(a, q=qs) for a pair qs of quantile levels
quantile(a, qs) ==
    IF \E j \in 1..2 : NLess(qs[j], Zero) \/ NLess(One, qs[j])
    THEN {[exc |-> "ValueError", quantiles |-> NoPair]}
    ELSE IF a = << >>
    \* an empty list: nan with a warning, or an IndexError, by numpy version
    THEN {[exc |-> "IndexError", quantiles |-> NoPair],
          [exc |-> "none", quantiles |-> <<Untracked("nan"), Untracked("nan")>>]}
    ELSE (IF ListKind(a) = "cplx"
          \* complex input: a TypeError in the numpy versions that check it
          THEN {[exc |-> "TypeError", quantiles |-> NoPair]} ELSE {})
         \cup {[exc |-> "none", quantiles |-> <<v1, v2>>]
               : v1 \in QuantileValues(a, qs[1]), v2 \in QuantileValues(a, qs[2])}

(***************************************************************************)
(* proximal_find_ace(A, Y, W, Z, data).  The two GLM fits belong to        *)
(* statsmodels: the model keeps of them that model1.predict gives one      *)
(* real number per row, that the coefficient returned is a real number,    *)
(* here any value of AceValues, and that the binomial fit of model1 may    *)
(* raise (perfect separation, no data) when column W has fewer than two    *)
(* values.  data["What"] = What assigns the column What of the table the   *)
(* argument refers to.                                                     *)
(***************************************************************************)
AceValues == {Rat(1, 1), Rat(3, 2)}

\* table[c] = v: the table with column c set to v in every row
WithColumn(t, c, v) ==
    LET new(r) == [f \in (DOMAIN r) \cup {c} |-> IF f = c THEN v ELSE r[f]]
        S == {new(r) : r \in DOMAIN t}
        count(r2) ==
            LET from == {r \in DOMAIN t : new(r) = r2}
                RECURSIVE Sum(_)
                Sum(F) == IF F = {} THEN 0
                          ELSE LET r == CHOOSE r \in F : TRUE
                               IN  t[r] + Sum(F \ {r})
            IN  Sum(from)
    IN  [r2 \in S |-> count(r2)]

proximal_find_ace(A, Y, W, Z, data) ==
    (IF Cardinality({r[W] : r \in DOMAIN data}) < 2
     THEN {Outcome("PerfectSeparationError", NoMatrix, NoMatrix, NoMatrix, NoPair,
                   data)}
     ELSE {})
    \cup {Outcome("none", NoMatrix, NoMatrix, NoMatrix, ace,
                  WithColumn(data, "What", Untracked("real")))
          : ace \in AceValues}


(***************************************************************************)
(* The state of a notebook session.                                        *)
(***************************************************************************)
VARIABLES
    data,     \* the caller's observation table (the notebook's global data)
    size,     \* the notebook's global size
    pc,       \* "idle" between calls, or the bootstrap function being run
    frame,    \* the running call, or the last one and how it ended
    printed,  \* what the running (or last) call printed, in order
    law       \* SpecMoments, SpecExact: the distribution the input is taken from

vars == <<data, size, pc, frame, printed, law>>

\* exc is "none" or the uncaught exception that ended the call; ret is the
\* value returned, << >> when nothing was returned (or None was); calls counts
\* the calls of the estimator; repeat says that the call repeats the previous
\* one (the same function on the same table)
NoFrame ==
    [fn |-> "none", input |-> EmptyBag, exc |-> "none", done |-> FALSE,
     P |-> NoMatrix, Q |-> NoMatrix, eigenvectors |-> NoMatrix, ret |-> NoPair,
     method_name |-> "none", num_bootstraps |-> 0, alpha |-> Zero, i |-> 0,
     estimates0 |-> << >>, estimates1 |-> << >>, data_sampled |-> EmptyBag,
     calls |-> 0, repeat |-> FALSE, pWU |-> NoPair]

NoLaw == << >>

\* the probabilities the model draws: the multiples of 1/MaxDenom
Probs == {Rat(j, MaxDenom) : j \in 0..MaxDenom}

InitSession ==
    /\ pc = "idle"
    /\ frame = NoFrame
    /\ printed = << >>
    /\ law = NoLaw

\* the whole program on a table of up to MaxRows rows; size is the number of
\* rows the simulation drew, of which the table holds all or a part
Init ==
    /\ data \in TablesUpTo(Rows, MaxRows)
    /\ size \in len(data)..MaxRows
    /\ InitSession

\* the estimator from matrix P on, on the exact moments of a law: the
\* treated stratum is a mixture over the binary confounder U, given which
\* W, Z and Y are mutually independent; pU0 = p(U=0 | X=1), and pW0_U[u+1]
\* = p(W=0 | X=1, U=u), likewise pZ0_U and pY0_U
Laws == [pU0 : Probs, pW0_U : Probs \X Probs, pZ0_U : Probs \X Probs,
         pY0_U : Probs \X Probs]

InitMoments ==
    /\ data = EmptyBag
    /\ size = 0
    /\ pc = "idle"
    /\ frame = NoFrame
    /\ printed = << >>
    /\ law \in Laws

\* the estimator on a table of up to MaxEstRows rows
InitEst ==
    /\ data \in TablesUpTo(Rows, MaxEstRows)
    /\ size \in len(data)..MaxEstRows
    /\ InitSession

\* the estimator on a table of up to MaxWide rows, all of them treated
InitWide ==
    /\ data \in TablesUpTo(TreatedRows, MaxWide)
    /\ size = len(data)
    /\ InitSession

\* the frame of a direct call of an estimator that ended with outcome o
Direct(fn, o) ==
    [NoFrame EXCEPT !.fn = fn, !.input = data, !.exc = o.exc, !.done = TRUE,
                    !.P = o.P, !.Q = o.Q, !.eigenvectors = o.eigenvectors,
                    !.ret = o.ret, !.calls = 1,
                    !.repeat = (frame.fn = fn /\ frame.input = data)]

(***************************************************************************)
(* A cell calls two_proxy_effect_restoration("X", "Y", "Z", "W", data).    *)
(* An exception ends the cell and leaves the session idle.                 *)
(***************************************************************************)
TwoProxyCall ==
    /\ pc = "idle"
    /\ \E o \in two_proxy_effect_restoration("X", "Y", "Z", "W", data) :
          /\ frame' = Direct("two_proxy_effect_restoration", o)
          /\ data' = o.data
    /\ printed' = << >>
    /\ UNCHANGED <<size, pc, law>>

\* the call as the only one of its cell
TwoProxyOnce == frame.fn = "none" /\ TwoProxyCall

(***************************************************************************)
(* effect_restoration(X, Y, W, pWU, data) and recover_propensity_score(X,  *)
(* Y, W, pWU, data).  Both read the notebook's global size.                *)
(***************************************************************************)
\* the digits of i read from the least significant one
Bit_reversed(i, j) == (i \div (2 ^ j)) % 2

\* int(binString[j]) for binString = format(i, '03b')
Bit(i, j) == (i \div (2 ^ (2 - j))) % 2

\* the list observedData, for size > 0: entry i is the share, among size
\* rows, of the rows with (X, Y, W) the three binary digits of i
observedData(X, Y, W, table) ==
    [k \in 1..8 |->
        Fraction(Filter(Filter(Filter(table, X, Bit(k - 1, 0)), Y, Bit(k - 1, 1)),
                        W, Bit(k - 1, 2)), size)]

\* the error matrix read at positions 0 and 2 of the list pWU
MatrixM_stride(pWU) == Mat(pWU[1], pWU[3], NSub(One, pWU[1]), NSub(One, pWU[3]))

\* M = np.array([[pWU[0], pWU[1]], [(1-pWU[0]), (1-pWU[1])]])
MatrixM(pWU) == Mat(pWU[1], pWU[2], NSub(One, pWU[1]), NSub(One, pWU[2]))

\* result = np.matmul(I, pXYW) for the pair pXYW = (v0, v1)
MatVec(I, v0, v1) ==
    <<NAdd(NMul(At(I, 0, 0), v0), NMul(At(I, 0, 1), v1)),
      NAdd(NMul(At(I, 1, 0), v0), NMul(At(I, 1, 1), v1))>>

\* the list estimates: the two entries of I (observedData[i], observedData[i+1])
\* for i = 0, 2, 4, 6, in this order
Estimates(I, obs) ==
    MatVec(I, obs[1], obs[2]) \o MatVec(I, obs[3], obs[4])
        \o MatVec(I, obs[5], obs[6]) \o MatVec(I, obs[7], obs[8])

\* the part of the function after observedData: lines 214 to 228
Restore(pWU, obs, table) ==
    LET M == MatrixM(pWU) IN
    {IF I.exc # "none"
     THEN Outcome(I.exc, NoMatrix, NoMatrix, NoMatrix, NoPair, table)
     ELSE Outcome("none", NoMatrix, NoMatrix, NoMatrix, Estimates(I.m, obs), table)
     : I \in linalg_inv(M, FloatExactLU(M))}

effect_restoration(X, Y, W, pWU, table) ==
    IF size = 0
    \* len(data_subset)/size divides two Python ints
    THEN {Outcome("ZeroDivisionError", NoMatrix, NoMatrix, NoMatrix, NoPair, table)}
    ELSE Restore(pWU, observedData(X, Y, W, table), table)

\* the scores with b and c, the off-diagonal entries of I, exchanged
PropensityScores_transposed(I, obs) ==
    LET a == At(I, 0, 0)
        b == At(I, 1, 0)
        c == At(I, 0, 1)
        d == At(I, 1, 1)
        pX1W0 == NAdd(obs[5], obs[7])
        pX1W1 == NAdd(obs[6], obs[8])
        pW0 == NAdd(NAdd(NAdd(obs[1], obs[3]), obs[5]), obs[7])
        pW1 == NAdd(NAdd(NAdd(obs[2], obs[4]), obs[6]), obs[8])
    IN  <<NDiv(NAdd(NMul(a, pX1W0), NMul(b, pX1W1)), NAdd(NMul(a, pW0), NMul(b, pW1))),
          NDiv(NAdd(NMul(c, pX1W0), NMul(d, pX1W1)), NAdd(NMul(c, pW0), NMul(d, pW1)))>>

\* (pX1_U0, pX1_U1) from the inverse I and the list observedData
PropensityScores(I, obs) ==
    LET a == At(I, 0, 0)
        b == At(I, 0, 1)
        c == At(I, 1, 0)
        d == At(I, 1, 1)
        pX1W0 == NAdd(obs[5], obs[7])
        pX1W1 == NAdd(obs[6], obs[8])
        pW0 == NAdd(NAdd(NAdd(obs[1], obs[3]), obs[5]), obs[7])
        pW1 == NAdd(NAdd(NAdd(obs[2], obs[4]), obs[6]), obs[8])
    IN  <<NDiv(NAdd(NMul(a, pX1W0), NMul(b, pX1W1)), NAdd(NMul(a, pW0), NMul(b, pW1))),
          NDiv(NAdd(NMul(c, pX1W0), NMul(d, pX1W1)), NAdd(NMul(c, pW0), NMul(d, pW1)))>>

recover_propensity_score(X, Y, W, pWU, table) ==
    LET M == MatrixM(pWU) IN
    {IF I.exc # "none"
     THEN Outcome(I.exc, NoMatrix, NoMatrix, NoMatrix, NoPair, table)
     ELSE IF size = 0
     THEN Outcome("ZeroDivisionError", NoMatrix, NoMatrix, NoMatrix, NoPair, table)
     ELSE Outcome("none", NoMatrix, NoMatrix, NoMatrix,
                  PropensityScores(I.m, observedData(X, Y, W, table)), table)
     : I \in linalg_inv(M, FloatExactLU(M))}

\* the cell that derives the propensity scores from recovered_distribution:
\* pX1_U0 = pX1U0/pU0 and pX1_U1 = pX1U1/pU1 (numpy floats)
PropensityFromDistribution(recovered_distribution) ==
    LET r == recovered_distribution
        pX1U0 == NAdd(r[5], r[7])
        pX1U1 == NAdd(r[6], r[8])
        pU0 == NAdd(NAdd(NAdd(r[1], r[3]), r[5]), r[7])
        pU1 == NAdd(NAdd(NAdd(r[2], r[4]), r[6]), r[8])
    IN  <<NDiv(pX1U0, pU0), NDiv(pX1U1, pU1)>>

\* the pairs (p(W=0 | U=0), p(W=0 | U=1)) the cells pass as pWU
PWUs == Probs \X Probs

EffectRestorationCall ==
    /\ pc = "idle"
    /\ frame.fn = "none"
    /\ \E pWU \in PWUs :
       \E o \in effect_restoration("X", "Y", "W", pWU, data) :
          /\ frame' = [Direct("effect_restoration", o) EXCEPT !.pWU = pWU]
          /\ data' = o.data
    /\ printed' = << >>
    /\ UNCHANGED <<size, pc, law>>

RecoverPropensityCall ==
    /\ pc = "idle"
    /\ frame.fn = "none"
    /\ \E pWU \in PWUs :
       \E o \in recover_propensity_score("X", "Y", "W", pWU, data) :
          /\ frame' = [Direct("recover_propensity_score", o) EXCEPT !.pWU = pWU]
          /\ data' = o.data
    /\ printed' = << >>
    /\ UNCHANGED <<size, pc, law>>

(***************************************************************************)
(* The cell has ended (returned or raised): the session goes on to the     *)
(* next cell, with the table as the cell left it.                          *)
(***************************************************************************)
NextCell ==
    /\ pc = "idle"
    /\ frame.done
    /\ frame' = NoFrame
    /\ printed' = << >>
    /\ UNCHANGED <<data, size, pc, law>>

(***************************************************************************)
(* A cell calls proximal_find_ace("X", "Y", "W", "Z", data).               *)
(***************************************************************************)
ProximalCall ==
    /\ pc = "idle"
    /\ frame.fn = "none"
    /\ \E o \in proximal_find_ace("X", "Y", "W", "Z", data) :
          /\ frame' = Direct("proximal_find_ace", o)
          /\ data' = o.data
    /\ printed' = << >>
    /\ UNCHANGED <<size, pc, law>>

(***************************************************************************)
(* compute_confidence_intervals(X, Y, Z, W, data, method_name,             *)
(* num_bootstraps, alpha) of the two-proxy notebook.                       *)
(***************************************************************************)
Alphas == {Rat(0, 1), Rat(1, 20), Rat(1, 1)}
Methods == {"two proxy", "backdoor"}

\* Ql = alpha/2; Qu = 1 - alpha/2
Ql(alpha) == NDiv(alpha, Rat(2, 1))
Qu(alpha) == NSub(One, NDiv(alpha, Rat(2, 1)))

BootCall ==
    /\ pc = "idle"
    /\ frame.fn = "none"
    /\ \E m \in Methods, B \in 0..MaxBoot, a \in Alphas :
          frame' = [NoFrame EXCEPT !.fn = "compute_confidence_intervals",
                                   !.input = data, !.method_name = m,
                                   !.num_bootstraps = B, !.alpha = a]
    /\ pc' = "compute_confidence_intervals"
    /\ printed' = << >>
    /\ UNCHANGED <<data, size, law>>

\* one pass of the loop body with method_name == "two proxy"
BootIterate ==
    /\ pc = "compute_confidence_intervals"
    /\ frame.i < frame.num_bootstraps
    /\ frame.method_name = "two proxy"
    /\ \E s \in Resamples(data) :
       \E o \in two_proxy_effect_restoration("X", "Y", "Z", "W", s) :
          IF o.exc # "none"
          THEN \* the exception leaves the loop and the function
               /\ frame' = [frame EXCEPT !.data_sampled = o.data, !.exc = o.exc,
                                         !.done = TRUE, !.calls = @ + 1]
               /\ pc' = "idle"
          ELSE /\ frame' = [frame EXCEPT !.data_sampled = o.data,
                                         !.estimates0 = Append(@, o.ret[1]),
                                         !.estimates1 = Append(@, o.ret[2]),
                                         !.i = @ + 1, !.calls = @ + 1]
               /\ pc' = pc
    /\ UNCHANGED <<data, size, printed, law>>

\* one pass of the loop body with another method_name: print and return
BootInvalidMethod ==
    /\ pc = "compute_confidence_intervals"
    /\ frame.i < frame.num_bootstraps
    /\ frame.method_name # "two proxy"
    /\ \E s \in Resamples(data) :
          frame' = [frame EXCEPT !.data_sampled = s, !.done = TRUE]
    /\ printed' = Append(printed, "Invalid method")
    /\ pc' = "idle"
    /\ UNCHANGED <<data, size, law>>

\* after the loop, method_name == "two proxy": the quantiles and the return
BootFinish ==
    /\ pc = "compute_confidence_intervals"
    /\ frame.i = frame.num_bootstraps
    /\ frame.method_name = "two proxy"
    /\ LET qs == <<Ql(frame.alpha), Qu(frame.alpha)>> IN
       \E q0 \in quantile(frame.estimates0, qs) :
       \E q1 \in quantile(frame.estimates1, qs) :
          frame' =
             IF q0.exc # "none" THEN [frame EXCEPT !.exc = q0.exc, !.done = TRUE]
             ELSE IF q1.exc # "none" THEN [frame EXCEPT !.exc = q1.exc, !.done = TRUE]
             ELSE [frame EXCEPT !.ret = <<q0.quantiles, q1.quantiles>>, !.done = TRUE]
    /\ pc' = "idle"
    /\ UNCHANGED <<data, size, printed, law>>

\* after a loop of no pass with another method_name: the return statement
\* reads q_low0, which was never assigned
BootUnassigned ==
    /\ pc = "compute_confidence_intervals"
    /\ frame.i = frame.num_bootstraps
    /\ frame.method_name # "two proxy"
    /\ frame' = [frame EXCEPT !.exc = "UnboundLocalError", !.done = TRUE]
    /\ pc' = "idle"
    /\ UNCHANGED <<data, size, printed, law>>

(***************************************************************************)
(* compute_confidence_intervals(A, Y, W, Z, data, num_bootstraps, alpha)   *)
(* of the proximal notebook.                                               *)
(***************************************************************************)
ProximalBootCall ==
    /\ pc = "idle"
    /\ frame.fn = "none"
    /\ \E B \in 0..MaxBoot, a \in Alphas :
          frame' = [NoFrame EXCEPT !.fn = "compute_confidence_intervals_proximal",
                                   !.input = data, !.method_name = "proximal",
                                   !.num_bootstraps = B, !.alpha = a]
    /\ pc' = "compute_confidence_intervals_proximal"
    /\ printed' = << >>
    /\ UNCHANGED <<data, size, law>>

ProximalBootIterate ==
    /\ pc = "compute_confidence_intervals_proximal"
    /\ frame.i < frame.num_bootstraps
    /\ \E s \in Resamples(data) :
       \E o \in proximal_find_ace("X", "Y", "W", "Z", s) :
          IF o.exc # "none"
          THEN /\ frame' = [frame EXCEPT !.data_sampled = o.data, !.exc = o.exc,
                                         !.done = TRUE, !.calls = @ + 1]
               /\ pc' = "idle"
          ELSE /\ frame' = [frame EXCEPT !.data_sampled = o.data,
                                         !.estimates0 = Append(@, o.ret),
                                         !.i = @ + 1, !.calls = @ + 1]
               /\ pc' = pc
    /\ UNCHANGED <<data, size, printed, law>>

ProximalBootFinish ==
    /\ pc = "compute_confidence_intervals_proximal"
    /\ frame.i = frame.num_bootstraps
    /\ \E q \in quantile(frame.estimates0, <<Ql(frame.alpha), Qu(frame.alpha)>>) :
          frame' = IF q.exc # "none" THEN [frame EXCEPT !.exc = q.exc, !.done = TRUE]
                   ELSE [frame EXCEPT !.ret = q.quantiles, !.done = TRUE]
    /\ pc' = "idle"
    /\ UNCHANGED <<data, size, printed, law>>

Next ==
    \/ TwoProxyOnce
    \/ NextCell
    \/ EffectRestorationCall
    \/ RecoverPropensityCall
    \/ ProximalCall
    \/ BootCall
    \/ BootIterate
    \/ BootInvalidMethod
    \/ BootFinish
    \/ BootUnassigned
    \/ ProximalBootCall
    \/ ProximalBootIterate
    \/ ProximalBootFinish

Spec == Init /\ [][Next]_vars

\* the expectation over the confounder, under the law l, of a quantity whose
\* value is v[1] given U = 0 and v[2] given U = 1
Mix(l, v) == NAdd(NMul(l.pU0, v[1]), NMul(NSub(One, l.pU0), v[2]))

\* the product, entry by entry, of two pairs of conditional probabilities
Both(v, w) == <<NMul(v[1], w[1]), NMul(v[2], w[2])>>

\* the matrices P and Q of an infinite sample of the law l
MomentP(l) ==
    Mat(One, Mix(l, l.pW0_U),
        Mix(l, l.pZ0_U), Mix(l, Both(l.pZ0_U, l.pW0_U)))

MomentQ(l) ==
    Mat(Mix(l, l.pY0_U), Mix(l, Both(l.pY0_U, l.pW0_U)),
        Mix(l, Both(l.pY0_U, l.pZ0_U)),
        Mix(l, Both(l.pY0_U, Both(l.pZ0_U, l.pW0_U))))

\* lines 409 to 433 of two_proxy_effect_restoration on the moments of the law
SolveMoments ==
    /\ pc = "idle"
    /\ frame.fn = "none"
    /\ law # NoLaw
    /\ \E o \in Solve(MomentP(law), MomentQ(law), data) :
          /\ frame' = Direct("two_proxy_effect_restoration", o)
          /\ data' = o.data
    /\ printed' = << >>
    /\ UNCHANGED <<size, pc, law>>

NextMoments == SolveMoments

SpecMoments == InitMoments /\ [][NextMoments]_vars

NextEst == TwoProxyCall

SpecEst == InitEst /\ [][NextEst]_vars

NextWide == TwoProxyOnce

SpecWide == InitWide /\ [][NextWide]_vars

(***************************************************************************)
(* effect_restoration from matrix M on, on the exact observed distribution *)
(* of a law: joint[4x + 2y + u + 1] = p(X=x, Y=y, U=u), and the proxy W    *)
(* is drawn given U alone, W = 0 with probability pWU[1] when U = 0 and    *)
(* pWU[2] when U = 1.  pWU is the list of four numbers the cell passes, of *)
(* which the last two are any.                                             *)
(***************************************************************************)
\* the lists of 8 multiples of 1/MaxDenom that sum to 1
Joints ==
    LET RECURSIVE Total(_, _)
        Total(f, k) == IF k = 0 THEN 0 ELSE f[k] + Total(f, k - 1)
    IN  {[k \in 1..8 |-> Rat(f[k], MaxDenom)]
         : f \in {g \in [1..8 -> 0..MaxDenom] : Total(g, 8) = MaxDenom}}

LawsXYU == [joint : Joints, pWU : Probs \X Probs \X Probs \X Probs]

InitExact ==
    /\ data = EmptyBag
    /\ size = 0
    /\ pc = "idle"
    /\ frame = NoFrame
    /\ printed = << >>
    /\ law \in LawsXYU

\* p(X=x, Y=y, W=w) = sum over u of p(W=w | U=u) p(X=x, Y=y, U=u), listed
\* like observedData: entry 4x + 2y + w + 1
ObservedOf(l) ==
    [k \in 1..8 |->
        LET b == 2 * ((k - 1) \div 2) + 1
            pw(u) == IF (k - 1) % 2 = 0 THEN l.pWU[u] ELSE NSub(One, l.pWU[u])
        IN  NAdd(NMul(pw(1), l.joint[b]), NMul(pw(2), l.joint[b + 1]))]

\* lines 214 to 228 of effect_restoration on the observed distribution
RestoreLaw ==
    /\ pc = "idle"
    /\ frame.fn = "none"
    /\ law # NoLaw
    /\ \E o \in Restore(law.pWU, ObservedOf(law), data) :
          /\ frame' = [Direct("effect_restoration", o) EXCEPT !.pWU = law.pWU]
          /\ data' = o.data
    /\ printed' = << >>
    /\ UNCHANGED <<size, pc, law>>

NextExact == RestoreLaw

SpecExact == InitExact /\ [][NextExact]_vars

\* the single-proxy functions on a table of up to MaxSingleRows rows; they
\* read the columns X, Y and W only, so the rows differ in these
RowsXYW == {r \in Rows : r["Z"] = 0}

InitSingle ==
    /\ data \in TablesUpTo(RowsXYW, MaxSingleRows)
    /\ size \in len(data)..MaxSingleRows
    /\ InitSession

\* the two single-proxy functions, each called by a cell on the table
NextSingle ==
    \/ EffectRestorationCall
    \/ RecoverPropensityCall

SpecSingle == InitSingle /\ [][NextSingle]_vars


(***************************************************************************)
(* Properties of two_proxy_effect_restoration.                             *)
(***************************************************************************)
\* a direct call of two_proxy_effect_restoration has ended
TwoProxyEnded == frame.fn = "two_proxy_effect_restoration" /\ frame.done

\* the number of rows of t with treatment 1 and value 0 in every column of zero
CountTreated(t, zero) ==
    LET S == {r \in DOMAIN t : r["X"] = 1 /\ \A c \in zero : r[c] = 0}
        RECURSIVE Sum(_)
        Sum(F) == IF F = {} THEN 0
                  ELSE LET r == CHOOSE r \in F : TRUE IN t[r] + Sum(F \ {r})
    IN  Sum(S)

TreatedShare(t, zero) == Rat(CountTreated(t, zero), CountTreated(t, {}))

SolvedMatrix(P, Q) ==
    LET pinv == CHOOSE x \in linalg_inv(P, TRUE) : x.exc = "none"
    IN  matmul(pinv.m, Q)

MomentM(l) == SolvedMatrix(MomentP(l), MomentQ(l))

\* the hypotheses of the identification: P is non-singular and the two
\* eigenvalues of P^{-1} Q are distinct
Identified(l) ==
    /\ Det(MomentP(l)) # Zero
    /\ Discriminant(MomentM(l)) # Zero

\* the pair ret is the pair p, in either order
UpToOrder(ret, p) == ret = p \/ ret = <<p[2], p[1]>>

\* C2 (as the code has it): on the exact moments of a law in which W, Z and Y
\* are mutually independent given the binary U, with P non-singular and two
\* distinct eigenvalues, the function returns, up to order, the two values
\* p(W=0 | X=1, U=0) and p(W=0 | X=1, U=1): the conditionals of the proxy W,
\* the one whose marginal is P[0][1].
C2_ReturnsProxyW ==
    (law # NoLaw /\ TwoProxyEnded /\ Identified(law)) =>
        /\ frame.exc = "none"
        /\ UpToOrder(frame.ret, law.pW0_U)

\* C2 as stated: the returned values are p(Z=0 | X=1, U=0) and
\* p(Z=0 | X=1, U=1), up to order
C2_ReturnsProxyZ ==
    (law # NoLaw /\ TwoProxyEnded /\ Identified(law)) =>
        /\ frame.exc = "none"
        /\ UpToOrder(frame.ret, law.pZ0_U)

\* an identified law whose two proxies have different conditionals, solved
C2_Witness ==
    /\ law # NoLaw
    /\ TwoProxyEnded
    /\ Identified(law)
    /\ law.pW0_U[1] # law.pW0_U[2]
    /\ ~UpToOrder(law.pZ0_U, law.pW0_U)
    /\ frame.exc = "none"

\* the eigenvector matrix H with its two columns exchanged
SwapColumns(H) == Mat(At(H, 0, 1), At(H, 0, 0), At(H, 1, 1), At(H, 1, 0))

\* H with its first column multiplied by s1 and its second by s2
ScaleColumns(H, s1, s2) ==
    Mat(NMul(s1, At(H, 0, 0)), NMul(s2, At(H, 0, 1)),
        NMul(s1, At(H, 1, 0)), NMul(s2, At(H, 1, 1)))

ColumnScales == {Rat(-1, 1), Rat(1, 2), Rat(3, 1)}

\* lines 428 to 433 on the eigenvector matrix H: the pairs they may return
PairsFrom(H) == {Ratios(h.m) : h \in {x \in linalg_inv(H, TRUE) : x.exc = "none"}}

\* the call returned from an invertible eigenvector matrix
ReturnedFromInvertible ==
    /\ TwoProxyEnded
    /\ frame.exc = "none"
    /\ AllRat(frame.eigenvectors)
    /\ Det(frame.eigenvectors) # Zero

\* C3: for any invertible eigenvector matrix H, exchanging its two columns
\* exchanges the two returned values, and multiplying each column by a
\* nonzero scalar leaves both returned values unchanged.
C3_OrderAndScale ==
    ReturnedFromInvertible =>
        /\ PairsFrom(frame.eigenvectors) = {frame.ret}
        /\ PairsFrom(SwapColumns(frame.eigenvectors))
              = {<<frame.ret[2], frame.ret[1]>>}
        /\ \A s1 \in ColumnScales, s2 \in ColumnScales :
              PairsFrom(ScaleColumns(frame.eigenvectors, s1, s2)) = {frame.ret}

\* a call that returned two different rational values
C3_Witness ==
    /\ ReturnedFromInvertible
    /\ IsRat(frame.ret[1]) /\ IsRat(frame.ret[2])
    /\ frame.ret[1] # frame.ret[2]
    /\ frame.eigenvectors # Identity

\* C4: the function is pure with respect to its inputs: a call leaves the
\* caller's table as it was, writes no global (size keeps its value), and a
\* second call on the same table builds the same P and the same Q.
C4_Pure ==
    [][(frame'.fn = "two_proxy_effect_restoration" /\ frame'.done) =>
          /\ data' = data
          /\ size' = size
          /\ frame'.input = data
          /\ (frame.fn = frame'.fn /\ frame.input = frame'.input) =>
                (frame'.P = frame.P /\ frame'.Q = frame.Q)]_vars

\* a second call on the same table, one that holds rows the stratum leaves out
C4_Witness ==
    /\ TwoProxyEnded
    /\ frame.repeat
    /\ frame.exc = "none"
    /\ data = frame.input
    /\ \E r \in DOMAIN data : r["X"] = 0

\* the call built a singular P
SingularP == frame.P # NoMatrix /\ Det(frame.P) = Zero

\* C5: when the table has no row of treatment 1, or P is singular, the call
\* ends in an uncaught error and returns no pair of estimates.
C5_PreconditionRaises ==
    (TwoProxyEnded /\ (CountTreated(frame.input, {}) = 0 \/ SingularP)) =>
        /\ frame.exc # "none"
        /\ frame.ret = NoPair

\* a call that built a singular P and returned a pair
C5_Witness ==
    /\ TwoProxyEnded
    /\ SingularP
    /\ frame.exc = "none"
    /\ Len(frame.ret) = 2

\* P is invertible and P^{-1} Q has two non-real eigenvalues
ComplexEigenvalues ==
    /\ frame.P # NoMatrix
    /\ Det(frame.P) # Zero
    /\ Discriminant(SolvedMatrix(frame.P, frame.Q)).n < 0

\* the call told its caller that there is no real solution, in an exception
\* or in a printed line
NoRealSolutionReported ==
    \/ frame.exc # "none"
    \/ \E j \in 1..Len(printed) : printed[j] = "no real solution"

\* C6: when P^{-1} Q has complex eigenvalues the call reports that there is
\* no real solution and returns no pair of estimates.
C6_NoRealSolution ==
    (TwoProxyEnded /\ ComplexEigenvalues) =>
        /\ frame.ret = NoPair
        /\ NoRealSolutionReported

\* a call that met complex eigenvalues, returned a pair and printed nothing
C6_Witness ==
    /\ TwoProxyEnded
    /\ ComplexEigenvalues
    /\ frame.exc = "none"
    /\ Len(frame.ret) = 2
    /\ printed = << >>

(***************************************************************************)
(* Properties of the two compute_confidence_intervals.                     *)
(***************************************************************************)
BootFunctions ==
    {"compute_confidence_intervals", "compute_confidence_intervals_proximal"}

\* a call of a bootstrap function with a valid method has ended
BootEnded ==
    /\ frame.fn \in BootFunctions
    /\ frame.method_name \in {"two proxy", "proximal"}
    /\ frame.done

\* lower <= upper as Python compares them: a nan compares False
Ordered(lower, upper) ==
    IF IsRat(lower) /\ IsRat(upper) THEN NLeq(lower, upper)
    ELSE lower.k # "nan" /\ upper.k # "nan"

\* interval is a quantile pair of the list a at the levels of alpha
QuantilePairOf(interval, a, alpha) ==
    \E q \in quantile(a, <<Ql(alpha), Qu(alpha)>>) :
        q.exc = "none" /\ q.quantiles = interval

\* C7: for B >= 1 and a valid method the loop ends after exactly B passes,
\* each with one resample of len(data) rows and one call of the estimator;
\* each list then holds B values, and the interval of coordinate i is the
\* (alpha/2, 1 - alpha/2) quantile pair of list i, lower bound <= upper bound.
C7_LoopAndIntervals ==
    (BootEnded /\ frame.num_bootstraps >= 1) =>
        /\ frame.i = frame.num_bootstraps
        /\ frame.calls = frame.num_bootstraps
        /\ len(frame.data_sampled) = len(frame.input)
        /\ Len(frame.estimates0) = frame.num_bootstraps
        /\ IF frame.fn = "compute_confidence_intervals"
           THEN /\ Len(frame.estimates1) = frame.num_bootstraps
                /\ Len(frame.ret) = 2
                /\ QuantilePairOf(frame.ret[1], frame.estimates0, frame.alpha)
                /\ QuantilePairOf(frame.ret[2], frame.estimates1, frame.alpha)
                /\ Ordered(frame.ret[1][1], frame.ret[1][2])
                /\ Ordered(frame.ret[2][1], frame.ret[2][2])
           ELSE /\ Len(frame.ret) = 2
                /\ QuantilePairOf(frame.ret, frame.estimates0, frame.alpha)
                /\ Ordered(frame.ret[1], frame.ret[2])

\* a bootstrap of two passes that the estimator's exception ended in the second
C7_Witness ==
    /\ BootEnded
    /\ frame.num_bootstraps = 2
    /\ frame.i = 1
    /\ frame.calls = 2
    /\ frame.exc # "none"

\* C8: with num_bootstraps = 1 the function returns, for every coordinate
\* and every alpha, the interval whose two bounds are the estimator's value
\* on the one resample drawn.
C8_DegenerateInterval ==
    (BootEnded /\ frame.num_bootstraps = 1 /\ frame.exc = "none") =>
        IF frame.fn = "compute_confidence_intervals"
        THEN frame.ret = <<<<frame.estimates0[1], frame.estimates0[1]>>,
                           <<frame.estimates1[1], frame.estimates1[1]>>>>
        ELSE frame.ret = <<frame.estimates0[1], frame.estimates0[1]>>

\* a bootstrap of one pass whose estimate is not finite and whose interval
\* is (nan, nan)
C8_Witness ==
    /\ BootEnded
    /\ frame.fn = "compute_confidence_intervals"
    /\ frame.num_bootstraps = 1
    /\ frame.exc = "none"
    /\ frame.estimates1[1].k = "ill"
    /\ frame.ret[2] = <<Untracked("nan"), Untracked("nan")>>

\* the exceptions with which the estimator fails on a table
EstimatorErrors == {"ZeroDivisionError", "LinAlgError", "PerfectSeparationError"}

\* C9: a failure of the estimator on one resample does not end the
\* bootstrap: the function goes on with the remaining resamples and returns.
C9_FailureContained ==
    BootEnded =>
        /\ frame.exc \notin EstimatorErrors
        /\ frame.i = frame.num_bootstraps

\* a bootstrap that the singular P of its first resample ended
C9_Witness ==
    /\ BootEnded
    /\ frame.exc = "LinAlgError"
    /\ frame.i = 0
    /\ frame.num_bootstraps >= 1
    /\ frame.ret = NoPair

\* C10: the table handed to an estimator or to a bootstrap function is
\* never changed: while a call runs and when it has ended the caller's
\* table has the rows and the columns it had when the call began.
C10_TableNeverMutated ==
    frame.fn # "none" =>
        /\ data = frame.input
        /\ ColumnsOf(data) = ColumnsOf(frame.input)

\* proximal_find_ace has returned and the caller's table has a column more
C10_Witness ==
    /\ frame.fn = "proximal_find_ace"
    /\ frame.done
    /\ "What" \in ColumnsOf(data)
    /\ "What" \notin ColumnsOf(frame.input)

(***************************************************************************)
(* Properties of effect_restoration and recover_propensity_score.          *)
(***************************************************************************)
\* a direct call of effect_restoration has ended
EffectRestorationEnded == frame.fn = "effect_restoration" /\ frame.done

\* the number of rows of t with X = x, Y = y and W = w
CountXYW(t, x, y, w) ==
    LET S == {r \in DOMAIN t : r["X"] = x /\ r["Y"] = y /\ r["W"] = w}
        RECURSIVE Sum(_)
        Sum(F) == IF F = {} THEN 0
                  ELSE LET r == CHOOSE r \in F : TRUE IN t[r] + Sum(F \ {r})
    IN  Sum(S)

\* the observed distribution over (treatment, outcome, proxy) as the
\* function takes it from the table: entry 4x + 2y + w is the number of rows
\* with X = x, Y = y, W = w divided by the number n of rows drawn
ObservedShares(t, n) ==
    [k \in 1..8 |->
        Rat(CountXYW(t, (k - 1) \div 4, ((k - 1) \div 2) % 2, (k - 1) % 2), n)]

\* C11: called with the identity error matrix (p(W=0|U=0) = 1 and
\* p(W=0|U=1) = 0) effect_restoration returns the observed 8-entry
\* distribution over (treatment, outcome, proxy) unchanged, entry by entry
\* and in the same order.
C11_IdentityRoundTrip ==
    (EffectRestorationEnded /\ frame.pWU = <<One, Zero>> /\ size > 0) =>
        /\ frame.exc = "none"
        /\ frame.ret = ObservedShares(frame.input, size)

\* a call with the identity error matrix on a table of two rows that differ
\* in the proxy only
C11_Witness ==
    /\ EffectRestorationEnded
    /\ frame.pWU = <<One, Zero>>
    /\ frame.exc = "none"
    /\ CountXYW(frame.input, 1, 0, 0) = 1
    /\ CountXYW(frame.input, 1, 0, 1) = 1
    /\ frame.ret[5] # Zero /\ frame.ret[6] # Zero

\* the sum of the entries of a list of numbers
RECURSIVE SumOf(_)
SumOf(a) == IF a = << >> THEN Zero ELSE NAdd(Head(a), SumOf(Tail(a)))

\* the error matrix that pWU gives is invertible
InvertibleM(pWU) == Det(MatrixM(pWU)) # Zero

\* C12: for every table passed to effect_restoration and every invertible
\* error matrix, the 8 entries of the recovered distribution sum to 1, also
\* for a table whose number of rows differs from the global size.
C12_SumsToOne ==
    (EffectRestorationEnded /\ len(frame.input) > 0 /\ InvertibleM(frame.pWU)) =>
        /\ frame.exc = "none"
        /\ SumOf(frame.ret) = One

\* a call that returned, on a table of fewer rows than size, a list whose
\* sum is the table's length over size
C12_Witness ==
    /\ EffectRestorationEnded
    /\ InvertibleM(frame.pWU)
    /\ frame.exc = "none"
    /\ len(frame.input) > 0
    /\ len(frame.input) < size
    /\ SumOf(frame.ret) = Rat(len(frame.input), size)

\* C13: if the observed joint is the mixture of a latent joint p(x, y, u)
\* by the error probabilities pWU[0] = p(W=0|U=0), pWU[1] = p(W=0|U=1), and
\* these give an invertible matrix, then entry 4x + 2y + u of the result is
\* p(x, y, U=u) for all x, y, u; only pWU[0] and pWU[1] are read, the rest
\* of the list pWU has no effect.
C13_ExactRestoration ==
    (law # NoLaw /\ EffectRestorationEnded /\ InvertibleM(law.pWU)) =>
        /\ frame.exc = "none"
        /\ \A x \in 0..1, y \in 0..1, u \in 0..1 :
              frame.ret[4 * x + 2 * y + u + 1] = law.joint[4 * x + 2 * y + u + 1]
        /\ \A rest \in Probs \X Probs :
              MatrixM(<<law.pWU[1], law.pWU[2]>> \o rest) = MatrixM(law.pWU)

\* a law with a noisy proxy and mass on both values of U, restored, with
\* the rest of the list pWU different from its head
C13_Witness ==
    /\ law # NoLaw
    /\ EffectRestorationEnded
    /\ InvertibleM(law.pWU)
    /\ frame.exc = "none"
    /\ law.pWU[1] \notin {Zero, One}
    /\ law.pWU[3] # law.pWU[2]
    /\ law.joint[5] # Zero /\ law.joint[6] # Zero
    /\ ObservedOf(law) # law.joint

\* a call of the two-proxy compute_confidence_intervals with a method_name
\* other than "two proxy" has ended
InvalidMethodEnded ==
    /\ frame.fn = "compute_confidence_intervals"
    /\ frame.method_name # "two proxy"
    /\ frame.done

\* C14: for every method_name other than "two proxy" and every
\* num_bootstraps >= 0 the function reports "Invalid method" and returns no
\* interval, without calling an estimator; it never reaches its last return
\* statement with q_low0, q_up0, q_low1 or q_up1 unassigned.
C14_InvalidMethodReported ==
    InvalidMethodEnded =>
        /\ printed = <<"Invalid method">>
        /\ frame.exc = "none"
        /\ frame.ret = NoPair
        /\ frame.calls = 0

\* a call with num_bootstraps = 0 that printed nothing and ended in the
\* return statement's UnboundLocalError
C14_Witness ==
    /\ InvalidMethodEnded
    /\ frame.num_bootstraps = 0
    /\ frame.exc = "UnboundLocalError"
    /\ printed = << >>

\* a direct call of recover_propensity_score has ended
RecoverPropensityEnded == frame.fn = "recover_propensity_score" /\ frame.done

\* C15: for every table and every invertible error matrix given by pWU,
\* recover_propensity_score ends as effect_restoration does on the same
\* arguments, and the pair it returns is the one derived from
\* effect_restoration's output r: ((r[4]+r[6])/(r[0]+r[2]+r[4]+r[6]),
\* (r[5]+r[7])/(r[1]+r[3]+r[5]+r[7])).
C15_SameAsRestoration ==
    (RecoverPropensityEnded /\ InvertibleM(frame.pWU)) =>
        \A o \in effect_restoration("X", "Y", "W", frame.pWU, frame.input) :
            /\ o.exc = frame.exc
            /\ o.exc = "none" => frame.ret = PropensityFromDistribution(o.ret)

\* a call with a noisy proxy that returned two different finite scores
C15_Witness ==
    /\ RecoverPropensityEnded
    /\ InvertibleM(frame.pWU)
    /\ frame.exc = "none"
    /\ frame.pWU[1] \notin {Zero, One}
    /\ IsRat(frame.ret[1]) /\ IsRat(frame.ret[2])
    /\ frame.ret[1] # frame.ret[2]

=============================================================================
